---- MODULE Spec2Model ----
(***************************************************************************)
(* The "forward" library: lazy, pull-based sequence operators.             *)
(*                                                                         *)
(* Two cursor designs live in the repository:                              *)
(*   forward-basics.h  cursors with one operation, next(), returning a     *)
(*                     tuple (has_more, value);                            *)
(*   forward.h         cursors with has_value() / get_value() / forward(). *)
(*                                                                         *)
(* The model is a client program that builds a pipeline of sequence        *)
(* objects (from / from_moved / range, then where / select stages chained  *)
(* with >>), ends the full-expression that built it (the temporaries of    *)
(* the expression die there), creates cursors, pulls them by hand and      *)
(* drains the pipeline with to_vector.                                     *)
(***************************************************************************)
EXTENDS Integers, Sequences, FiniteSets, TLC

\* ---------------------------------------------------------------- bounds
MaxLen == 2          \* longest caller container
NumMax == 2          \* Number == 0..NumMax, an unsigned type: ++ wraps to 0
MaxStages == 2       \* where/select stages chained on a source
MaxCursors == 2      \* cursors the client holds at once
MaxAbsentPulls == 2  \* the client pulls a cursor until it saw this many Absent
MaxDrains == 2       \* to_vector calls on the pipeline

\* ---------------------------------------------------------------- values
ElemValues == {15, 21}
Number == 0..NumMax
Filters == {"lt20", "even", "always_true", "always_false"}
Transforms == {"plus100"}
MovingTransforms == {"take"}   \* transforms that move from their argument
Keys == {"value", "parity", "negated"}   \* the key_fn a caller hands to order_by
Zeros == {0, 1}      \* the zero a caller hands to sum_from

RECURSIVE SeqsUpTo(_)
SeqsUpTo(n) ==
    IF n = 0 THEN {<<>>}
    ELSE LET S == SeqsUpTo(n - 1)
         IN  S \cup {Append(s, x) : s \in {t \in S : Len(t) = n - 1}, x \in ElemValues}

Containers == SeqsUpTo(MaxLen)

\* the caller-supplied predicates (unittest1.cpp: i < 20, ...)
ApplyFilter(f, x) ==
    CASE f = "lt20" -> x < 20
      [] f = "even" -> x % 2 = 0
      [] f = "always_true" -> TRUE
      [] OTHER -> FALSE

\* the caller-supplied transforms (unittest1.cpp: i + 100, ...)
ApplyTransform(f, x) ==
    CASE f = "plus100" -> x + 100
      [] f = "take" -> x

\* Number's operator++ : the unsigned type wraps
Incr(n) == (n + 1) % (NumMax + 1)

\* ------------------------------------------- nullable objects: tuple<bool, T>
has_more(current) == current[1]

get_value_by_ref(current) == current[2]

forward_value(current) == current[2]

\* (false, ReturnType{}) : the value slot holds the default-constructed value
yield_break == <<FALSE, 0>>

yield_return(current) == <<TRUE, current>>

\* Where the value slot of the tuple lives that yield_return builds from
\* element i of a container: i if the slot is a reference to the element, 0 if
\* it is storage of the tuple's own.  std::make_tuple stores the decayed type,
\* a copy, whatever reference it is handed.
\* mutant: the tuple holds the reference it was handed (std::forward_as_tuple)
make_tuple_by_ref(i) == i

make_tuple(i) == 0

\* ---------------------------------------------------------------- state
VARIABLES
    header,    \* which header the client includes
    v,         \* the caller's container, borrowed by from(v)
    rng,       \* the caller's arguments <<start, endExclusive>> for range
    objs,      \* the sequence (Enumerable) objects built so far, by id
    top,       \* id of the head of the pipeline, 0 before the source is built
    temps,     \* ids of the temporaries of the full-expression being evaluated
    cur,       \* the client's cursors (Enumerators), by slot
    cur0,      \* each cursor as get_enumerator returned it
    snap,      \* per slot, the caller's container when the cursor was created
    hist,      \* per slot, the results the client got, in pull order
    trace,     \* per slot, the source reads and filter/transform calls it made
    drained,   \* the finished to_vector calls: result vector and events
    calls,     \* filter/transform invocations and source reads so far, in all
    overwritten, \* the memory of the destroyed temporaries has been reused
    crashed    \* the process faulted on a dangling read

vars == <<header, v, rng, objs, top, temps, cur, cur0, snap, hist, trace, drained,
          calls, overwritten, crashed>>

BasicsH == "forward-basics.h"
ForwardH == "forward.h"
Slots == 1..MaxCursors

NoCursor == [kind |-> "none"]

\* the number of enumerators nested inside enumerator c
RECURSIVE Height(_)
Height(c) ==
    IF c.kind \in {"range", "iter", "fiter"} THEN 0 ELSE 1 + Height(c.enumerator)

\* events of a pull: the read of source element i, and the call of the filter
\* or transform f by the stage at height h on the value slot of the result
\* current (present: the flag of that result); the value a reducer takes
\* out of a result
ReadEvent(i) ==
    [op |-> "read", fn |-> "", arg |-> i, present |-> TRUE, at |-> 0]
FilterEvent(f, current, h) ==
    [op |-> "filter", fn |-> f, arg |-> current[2], present |-> current[1],
     at |-> h]
TransformEvent(f, current, h) ==
    [op |-> "transform", fn |-> f, arg |-> current[2], present |-> current[1],
     at |-> h]
ReduceEvent(current) ==
    [op |-> "reduce", fn |-> "", arg |-> current[2], present |-> current[1],
     at |-> -1]

\* the source reads and filter/transform calls among the events ev
Calls(ev) == Len(SelectSeq(ev, LAMBDA e : e.op # "reduce"))

\* The container elements a pull with events ev moved from.  A transform is
\* handed std::get<1>(underlying), the value slot of the tuple the source built
\* from the element it read last (lastRead); a moving transform writes there.
RECURSIVE MovedFrom(_, _)
MovedFrom(ev, lastRead) ==
    IF ev = <<>> THEN {}
    ELSE LET e == Head(ev)
         IN  IF e.op = "read" THEN MovedFrom(Tail(ev), e.arg)
             ELSE IF e.op = "transform" /\ e.fn \in MovingTransforms
             THEN {make_tuple(lastRead)} \cup MovedFrom(Tail(ev), lastRead)
             ELSE MovedFrom(Tail(ev), lastRead)

\* the container data after the events ev: a moved-from element holds T{}
AfterMoves(data, ev) ==
    [i \in 1..Len(data) |-> IF i \in MovedFrom(ev, 0) THEN 0 ELSE data[i]]

\* ---------------------------------------------------------------- memory
\* What an iterator range points into: the caller's container (obj = 0), the
\* container a from_moved sequence owns (obj = its id), or overwritten memory
\* seen through a dangling reference (obj = -1, junk = what lies there).
Mem(o) == [obj |-> o, junk |-> <<>>]
JunkMem == [obj |-> -1, junk |-> <<0>>]

MemAlive(m) == m.obj <= 0 \/ objs[m.obj].alive

MemData(m) ==
    IF m.obj = -1 THEN m.junk ELSE IF m.obj = 0 THEN v ELSE objs[m.obj].data

\* mutant: every iterator points into the caller's container
DerefCaller(m, i) == IF i \in DOMAIN v THEN v[i] ELSE 0

\* *_current.  The storage of a destroyed from_moved sequence is only reached
\* through a dangling reference (see Enumerators): it reads as it was left.
Deref(m, i) == MemData(m)[i]

\* ------------------------------------- forward-basics.h : Enumerators
\* next() of any enumerator: [e |-> the enumerator afterwards, r |-> the tuple
\* returned, ev |-> the events].
RECURSIVE next(_)

RangeEnumerator(start, lastExcluded) ==
    [kind |-> "range", current |-> start, lastExcluded |-> lastExcluded]

EnumeratorFromIterator(m, begin, end) ==
    [kind |-> "iter", mem |-> m, current |-> begin, end |-> end]

SelectEnumerator(enumerator, transform) ==
    [kind |-> "select", enumerator |-> enumerator, transform |-> transform]

\* mutant: the constructor moves to the first position, as forward.h's does
WhereEnumeratorSeeks(enumerator, filter) ==
    [kind |-> "where", enumerator |-> next(enumerator).e, filter |-> filter]

WhereEnumerator(enumerator, filter) ==
    [kind |-> "where", enumerator |-> enumerator, filter |-> filter]


\* mutant: pre-increment, the value returned is the one after _current
RangeEnumeratorNextPreIncrement(c) ==
    IF c.current = c.lastExcluded
    THEN [e |-> c, r |-> yield_break, ev |-> <<>>]
    ELSE [e |-> [c EXCEPT !.current = Incr(c.current)],
          r |-> yield_return(Incr(c.current)), ev |-> <<>>]

\* mutant: _current++ == _lastExcluded, the cursor moves on at its end too
RangeEnumeratorNextStepsAtEnd(c) ==
    IF c.current = c.lastExcluded
    THEN [e |-> [c EXCEPT !.current = Incr(c.current)], r |-> yield_break,
          ev |-> <<>>]
    ELSE [e |-> [c EXCEPT !.current = Incr(c.current)],
          r |-> yield_return(c.current), ev |-> <<>>]

RangeEnumeratorNext(c) ==
    IF c.current = c.lastExcluded
    THEN [e |-> c, r |-> yield_break, ev |-> <<>>]
    ELSE [e |-> [c EXCEPT !.current = Incr(c.current)],
          r |-> yield_return(c.current), ev |-> <<>>]

EnumeratorFromIteratorNext(c) ==
    IF c.current = c.end
    THEN [e |-> c, r |-> yield_break, ev |-> <<>>]
    ELSE [e |-> [c EXCEPT !.current = c.current + 1],
          r |-> yield_return(Deref(c.mem, c.current)),
          ev |-> <<ReadEvent(c.current)>>]

\* mutant: the value of the upstream is passed on as it is
SelectEnumeratorNextRaw(c) ==
    LET underlying == next(c.enumerator)
        c1 == [c EXCEPT !.enumerator = underlying.e]
        x == underlying.r[2]
    IN  IF has_more(underlying.r)
        THEN [e |-> c1, r |-> yield_return(x),
              ev |-> Append(underlying.ev, TransformEvent(c.transform, underlying.r, Height(c)))]
        ELSE [e |-> c1, r |-> yield_break, ev |-> underlying.ev]

\* mutant: the transform is applied before has_more is looked at
SelectEnumeratorNextUnchecked(c) ==
    LET underlying == next(c.enumerator)
        c1 == [c EXCEPT !.enumerator = underlying.e]
        x == underlying.r[2]
        ev1 == Append(underlying.ev, TransformEvent(c.transform, underlying.r, Height(c)))
    IN  IF has_more(underlying.r)
        THEN [e |-> c1, r |-> yield_return(ApplyTransform(c.transform, x)),
              ev |-> ev1]
        ELSE [e |-> c1, r |-> yield_break, ev |-> ev1]

\* mutant: the upstream is pulled once more, ahead of the next call
SelectEnumeratorNextReadsAhead(c) ==
    LET underlying == next(c.enumerator)
        ahead == next(underlying.e)
        c1 == [c EXCEPT !.enumerator = underlying.e]
        x == underlying.r[2]
    IN  IF has_more(underlying.r)
        THEN [e |-> c1, r |-> yield_return(ApplyTransform(c.transform, x)),
              ev |-> underlying.ev \o ahead.ev
                       \o <<TransformEvent(c.transform, underlying.r, Height(c))>>]
        ELSE [e |-> c1, r |-> yield_break, ev |-> underlying.ev]

SelectEnumeratorNext(c) ==
    LET underlying == next(c.enumerator)
        c1 == [c EXCEPT !.enumerator = underlying.e]
        x == underlying.r[2]
    IN  IF has_more(underlying.r)
        THEN [e |-> c1, r |-> yield_return(ApplyTransform(c.transform, x)),
              ev |-> Append(underlying.ev, TransformEvent(c.transform, underlying.r, Height(c)))]
        ELSE [e |-> c1, r |-> yield_break, ev |-> underlying.ev]

\* mutant: the test of the filter is negated
RECURSIVE WhereEnumeratorNextNegated(_)
WhereEnumeratorNextNegated(c) ==
    LET current == next(c.enumerator)
        c1 == [c EXCEPT !.enumerator = current.e]
        x == get_value_by_ref(current.r)
        ev1 == Append(current.ev, FilterEvent(c.filter, current.r, Height(c)))
    IN  IF ~has_more(current.r)
        THEN [e |-> c1, r |-> yield_break, ev |-> current.ev]
        ELSE IF ~ApplyFilter(c.filter, x)
        THEN [e |-> c1, r |-> yield_return(forward_value(current.r)), ev |-> ev1]
        ELSE LET again == WhereEnumeratorNextNegated(c1)
             IN  [again EXCEPT !.ev = ev1 \o again.ev]

\* mutant: the first upstream element of a call is passed without the filter
WhereEnumeratorNextFirstPasses(c) ==
    LET current == next(c.enumerator)
        c1 == [c EXCEPT !.enumerator = current.e]
    IN  IF ~has_more(current.r)
        THEN [e |-> c1, r |-> yield_break, ev |-> current.ev]
        ELSE [e |-> c1, r |-> yield_return(forward_value(current.r)),
              ev |-> current.ev]

\* mutant: after the accepted element one more upstream element is consumed
RECURSIVE WhereEnumeratorNextOverruns(_)
WhereEnumeratorNextOverruns(c) ==
    LET current == next(c.enumerator)
        c1 == [c EXCEPT !.enumerator = current.e]
        x == get_value_by_ref(current.r)
        ev1 == Append(current.ev, FilterEvent(c.filter, current.r, Height(c)))
        extra == next(current.e)
    IN  IF ~has_more(current.r)
        THEN [e |-> c1, r |-> yield_break, ev |-> current.ev]
        ELSE IF ApplyFilter(c.filter, x)
        THEN [e |-> [c EXCEPT !.enumerator = extra.e],
              r |-> yield_return(forward_value(current.r)), ev |-> ev1 \o extra.ev]
        ELSE LET again == WhereEnumeratorNextOverruns(c1)
             IN  [again EXCEPT !.ev = ev1 \o again.ev]

\* mutant: the filter is called before has_more is looked at
RECURSIVE WhereEnumeratorNextUnchecked(_)
WhereEnumeratorNextUnchecked(c) ==
    LET current == next(c.enumerator)
        c1 == [c EXCEPT !.enumerator = current.e]
        x == get_value_by_ref(current.r)
        ev1 == Append(current.ev, FilterEvent(c.filter, current.r, Height(c)))
    IN  IF ~has_more(current.r)
        THEN [e |-> c1, r |-> yield_break, ev |-> ev1]
        ELSE IF ApplyFilter(c.filter, x)
        THEN [e |-> c1, r |-> yield_return(forward_value(current.r)), ev |-> ev1]
        ELSE LET again == WhereEnumeratorNextUnchecked(c1)
             IN  [again EXCEPT !.ev = ev1 \o again.ev]

\* mutant: no loop, a rejected element ends the enumeration
WhereEnumeratorNextNoLoop(c) ==
    LET current == next(c.enumerator)
        c1 == [c EXCEPT !.enumerator = current.e]
        x == get_value_by_ref(current.r)
        ev1 == Append(current.ev, FilterEvent(c.filter, current.r, Height(c)))
    IN  IF ~has_more(current.r)
        THEN [e |-> c1, r |-> yield_break, ev |-> current.ev]
        ELSE IF ApplyFilter(c.filter, x)
        THEN [e |-> c1, r |-> yield_return(forward_value(current.r)), ev |-> ev1]
        ELSE [e |-> c1, r |-> yield_break, ev |-> ev1]

RECURSIVE WhereEnumeratorNext(_)
WhereEnumeratorNext(c) ==
    LET current == next(c.enumerator)
        c1 == [c EXCEPT !.enumerator = current.e]
        x == get_value_by_ref(current.r)
        ev1 == Append(current.ev, FilterEvent(c.filter, current.r, Height(c)))
    IN  IF ~has_more(current.r)
        THEN [e |-> c1, r |-> yield_break, ev |-> current.ev]
        ELSE IF ApplyFilter(c.filter, x)
        THEN [e |-> c1, r |-> yield_return(forward_value(current.r)), ev |-> ev1]
        ELSE LET again == WhereEnumeratorNext(c1)
             IN  [again EXCEPT !.ev = ev1 \o again.ev]

next(c) ==
    CASE c.kind = "range" -> RangeEnumeratorNext(c)
      [] c.kind = "iter" -> EnumeratorFromIteratorNext(c)
      [] c.kind = "select" -> SelectEnumeratorNext(c)
      [] c.kind = "where" -> WhereEnumeratorNext(c)

\* ------------------------------------------- forward.h : Enumerators
\* has_value() / get_value() / forward().  Operations that change the
\* enumerator give [e |-> enumerator afterwards, ev |-> events, ok |-> every
\* assert(has_value()) on the way held]; get_value gives [val, ev].
RECURSIVE has_value(_)
has_value(c) ==
    IF c.kind = "fiter" THEN c.current # c.end ELSE has_value(c.enumerator)

RECURSIVE get_value(_)
get_value(c) ==
    CASE c.kind = "fiter" ->
            [val |-> Deref(c.mem, c.current), ev |-> <<ReadEvent(c.current)>>]
      [] c.kind = "fselect" ->
            \* _current is indeterminate until the first assignment; it is
            \* read only while has_value() holds, which is after it
            [val |-> c.current, ev |-> <<>>]
      [] c.kind = "fwhere" -> get_value(c.enumerator)

RECURSIVE forward(_)

FwdEnumeratorFromIterator(m, begin, end) ==
    [kind |-> "fiter", mem |-> m, current |-> begin, end |-> end]

FwdIterForward(c) ==
    [e |-> [c EXCEPT !.current = c.current + 1], ev |-> <<>>, ok |-> has_value(c)]

calculate_current_value(c) ==
    LET x == get_value(c.enumerator)
    IN  IF has_value(c.enumerator)
        THEN [e |-> [c EXCEPT !.valid = TRUE,
                              !.current = ApplyTransform(c.map, x.val)],
              ev |-> Append(x.ev, TransformEvent(c.map, <<has_value(c.enumerator), x.val>>, Height(c))), ok |-> TRUE]
        ELSE [e |-> [c EXCEPT !.valid = FALSE], ev |-> <<>>, ok |-> TRUE]

FwdSelectEnumerator(enumerator, map) ==
    calculate_current_value(
        [kind |-> "fselect", enumerator |-> enumerator, map |-> map,
         current |-> 0, valid |-> FALSE])

\* mutant: forward() leaves _current as it was
FwdSelectForwardStale(c) ==
    LET up == forward(c.enumerator)
    IN  [e |-> [c EXCEPT !.enumerator = up.e], ev |-> up.ev,
         ok |-> has_value(c) /\ up.ok]

FwdSelectForward(c) ==
    LET up == forward(c.enumerator)
        calc == calculate_current_value([c EXCEPT !.enumerator = up.e])
    IN  [e |-> calc.e, ev |-> up.ev \o calc.ev, ok |-> has_value(c) /\ up.ok]

\* mutant: while (!_filter(get_value())) forward(); has_value() is not asked.
\* Past the end the filter sees whatever lies there, and forward() asserts.
RECURSIVE seek_unchecked(_)
seek_unchecked(c) ==
    LET x == IF has_value(c.enumerator) THEN get_value(c.enumerator)
             ELSE [val |-> 0, ev |-> <<>>]
        ev1 == Append(x.ev, FilterEvent(c.filter, <<has_value(c.enumerator), x.val>>, Height(c)))
        up == forward(c.enumerator)
        again == seek_unchecked([c EXCEPT !.enumerator = up.e])
    IN  IF ApplyFilter(c.filter, x.val)
        THEN [e |-> c, ev |-> ev1, ok |-> TRUE]
        ELSE IF ~has_value(c.enumerator)
        THEN [e |-> c, ev |-> ev1, ok |-> FALSE]
        ELSE [e |-> again.e, ev |-> ev1 \o up.ev \o again.ev,
              ok |-> up.ok /\ again.ok]

\* mutant: if instead of while, one rejected element is skipped
seek_once(c) ==
    LET x == get_value(c.enumerator)
        ev1 == Append(x.ev, FilterEvent(c.filter, <<has_value(c.enumerator), x.val>>, Height(c)))
        up == forward(c.enumerator)
    IN  IF ~has_value(c.enumerator)
        THEN [e |-> c, ev |-> <<>>, ok |-> TRUE]
        ELSE IF ApplyFilter(c.filter, x.val)
        THEN [e |-> c, ev |-> ev1, ok |-> TRUE]
        ELSE [e |-> [c EXCEPT !.enumerator = up.e], ev |-> ev1 \o up.ev,
              ok |-> up.ok]

\* Move until either end or position that passes the filter
RECURSIVE seek(_)
seek(c) ==
    LET x == get_value(c.enumerator)
        ev1 == Append(x.ev, FilterEvent(c.filter, <<has_value(c.enumerator), x.val>>, Height(c)))
        up == forward(c.enumerator)
        again == seek([c EXCEPT !.enumerator = up.e])
    IN  IF ~has_value(c.enumerator)
        THEN [e |-> c, ev |-> <<>>, ok |-> TRUE]
        ELSE IF ApplyFilter(c.filter, x.val)
        THEN [e |-> c, ev |-> ev1, ok |-> TRUE]
        ELSE [e |-> again.e, ev |-> ev1 \o up.ev \o again.ev,
              ok |-> up.ok /\ again.ok]

FwdWhereEnumerator(enumerator, filter) ==
    seek([kind |-> "fwhere", enumerator |-> enumerator, filter |-> filter])

FwdWhereForward(c) ==
    LET up == forward(c.enumerator)
        sk == seek([c EXCEPT !.enumerator = up.e])
    IN  [e |-> sk.e, ev |-> up.ev \o sk.ev, ok |-> has_value(c) /\ up.ok /\ sk.ok]

forward(c) ==
    CASE c.kind = "fiter" -> FwdIterForward(c)
      [] c.kind = "fselect" -> FwdSelectForward(c)
      [] c.kind = "fwhere" -> FwdWhereForward(c)

\* ------------------------------------------------ Enumerables (sequences)
\* One record shape for every Enumerable class.  A where/select sequence holds
\* a REFERENCE to its upstream sequence (const Enumerable& _enumerable): up is
\* the id of the object referred to, which may have been destroyed since.
RangeEnumerable(start, lastExcluded) ==
    [kind |-> "range", up |-> 0, fn |-> "", a |-> start, b |-> lastExcluded,
     data |-> <<>>, alive |-> TRUE]

EnumerableFromIteratableRef ==
    [kind |-> "from", up |-> 0, fn |-> "", a |-> 0, b |-> 0,
     data |-> <<>>, alive |-> TRUE]

EnumerableFromIteratableMoved(iteratable) ==
    [kind |-> "moved", up |-> 0, fn |-> "", a |-> 0, b |-> 0,
     data |-> iteratable, alive |-> TRUE]

WhereEnumerable(enumerable, filter) ==
    [kind |-> "where", up |-> enumerable, fn |-> filter, a |-> 0, b |-> 0,
     data |-> <<>>, alive |-> TRUE]

SelectEnumerable(enumerable, transform) ==
    [kind |-> "select", up |-> enumerable, fn |-> transform, a |-> 0, b |-> 0,
     data |-> <<>>, alive |-> TRUE]

RECURSIVE Stages(_)
Stages(o) == IF objs[o].up = 0 THEN 0 ELSE 1 + Stages(objs[o].up)

\* some reference on the way from sequence o down to its source dangles
RECURSIVE Dangling(_)
Dangling(o) ==
    /\ objs[o].up # 0
    /\ ~objs[objs[o].up].alive \/ Dangling(objs[o].up)

\* the source cursor read out of overwritten memory
JunkSource(kind) ==
    IF kind = "range" THEN RangeEnumerator(0, 1)
    ELSE EnumeratorFromIterator(JunkMem, 1, 2)

\* forward-basics.h get_enumerator() of sequence o.  junk: the source object is
\* read through a dangling reference and its memory has been overwritten.
RECURSIVE get_enumerator(_, _)
get_enumerator(o, junk) ==
    LET ob == objs[o]
    IN  CASE ob.kind \in {"range", "from", "moved"} /\ junk -> JunkSource(ob.kind)
          [] ob.kind = "range" /\ ~junk -> RangeEnumerator(ob.a, ob.b)
          [] ob.kind = "from" /\ ~junk ->
                EnumeratorFromIterator(Mem(0), 1, Len(v) + 1)
          [] ob.kind = "moved" /\ ~junk ->
                EnumeratorFromIterator(Mem(o), 1, Len(ob.data) + 1)
          [] ob.kind = "where" ->
                WhereEnumerator(get_enumerator(ob.up, junk), ob.fn)
          [] ob.kind = "select" ->
                SelectEnumerator(get_enumerator(ob.up, junk), ob.fn)

\* forward.h get_enumerator(): the constructors of the where and select
\* enumerators run seek() and calculate_current_value()
RECURSIVE fwd_get_enumerator(_, _)
fwd_get_enumerator(o, junk) ==
    LET ob == objs[o]
        up == fwd_get_enumerator(ob.up, junk)
        made == IF ob.kind = "where" THEN FwdWhereEnumerator(up.e, ob.fn)
                ELSE FwdSelectEnumerator(up.e, ob.fn)
    IN  IF ob.kind = "from"
        THEN [e |-> IF junk THEN FwdEnumeratorFromIterator(JunkMem, 1, 2)
                    ELSE FwdEnumeratorFromIterator(Mem(0), 1, Len(v) + 1),
              ev |-> <<>>, ok |-> TRUE]
        ELSE [e |-> made.e, ev |-> up.ev \o made.ev, ok |-> up.ok /\ made.ok]

\* What get_enumerator() on sequence o can give.  With every reference valid it
\* is the one cursor the code builds.  Through a dangling reference the
\* behaviour is undefined: while the memory of the destroyed temporary has not
\* been reused its stale bytes are read; afterwards the source is read out of
\* whatever lies there now, or the process faults.
Enumerators(o) ==
    LET mk(junk) ==
            IF header = BasicsH
            THEN [crash |-> FALSE, e |-> get_enumerator(o, junk), ev |-> <<>>]
            ELSE LET r == fwd_get_enumerator(o, junk)
                 IN  [crash |-> FALSE, e |-> r.e, ev |-> r.ev]
    IN  IF ~Dangling(o) \/ ~overwritten THEN {mk(FALSE)}
        ELSE {mk(TRUE), [crash |-> TRUE, e |-> NoCursor, ev |-> <<>>]}

\* ------------------------------------------------------ terminal reducers
\* forward-basics.h to_vector: the for (;;) loop over enumerator.next()
\* mutant: push_back comes before the has_more test
RECURSIVE to_vector_push_first(_, _, _)
to_vector_push_first(enumerator, result, ev) ==
    LET nxt == next(enumerator)
    IN  IF ~has_more(nxt.r)
        THEN [vec |-> Append(result, nxt.r[2]),
              ev |-> ev \o nxt.ev \o <<ReduceEvent(nxt.r)>>, ok |-> TRUE]
        ELSE to_vector_push_first(nxt.e, Append(result, nxt.r[2]),
                                  ev \o nxt.ev \o <<ReduceEvent(nxt.r)>>)

\* mutant: the value is inserted at the front of the vector
RECURSIVE to_vector_push_front(_, _, _)
to_vector_push_front(enumerator, result, ev) ==
    LET nxt == next(enumerator)
    IN  IF ~has_more(nxt.r)
        THEN [vec |-> result, ev |-> ev \o nxt.ev, ok |-> TRUE]
        ELSE to_vector_push_front(nxt.e, <<nxt.r[2]>> \o result,
                                  ev \o nxt.ev \o <<ReduceEvent(nxt.r)>>)

RECURSIVE to_vector(_, _, _)
to_vector(enumerator, result, ev) ==
    LET nxt == next(enumerator)
    IN  IF ~has_more(nxt.r)
        THEN [vec |-> result, ev |-> ev \o nxt.ev, ok |-> TRUE]
        ELSE to_vector(nxt.e, Append(result, nxt.r[2]),
                       ev \o nxt.ev \o <<ReduceEvent(nxt.r)>>)

\* T::operator+ of the accumulator type of sum_from
Plus(a, b) == a + b

\* mutant: the accumulator starts from T{} instead of zero
RECURSIVE sum_from_default_zero(_, _, _, _)
sum_from_default_zero(enumerator, result, added, ev) ==
    LET nxt == next(enumerator)
        start == IF added = <<>> THEN 0 ELSE result
    IN  IF ~has_more(nxt.r)
        THEN [sum |-> start, vec |-> added, ev |-> ev \o nxt.ev, ok |-> TRUE]
        ELSE sum_from_default_zero(nxt.e, Plus(start, get_value_by_ref(nxt.r)),
                                   Append(added, get_value_by_ref(nxt.r)),
                                   ev \o nxt.ev \o <<ReduceEvent(nxt.r)>>)

\* forward-basics.h sum_from: result = result + get_value_by_ref(next) until
\* the first Absent pull; added lists the values added, in order
RECURSIVE sum_from(_, _, _, _)
sum_from(enumerator, result, added, ev) ==
    LET nxt == next(enumerator)
    IN  IF ~has_more(nxt.r)
        THEN [sum |-> result, vec |-> added, ev |-> ev \o nxt.ev, ok |-> TRUE]
        ELSE sum_from(nxt.e, Plus(result, get_value_by_ref(nxt.r)),
                      Append(added, get_value_by_ref(nxt.r)),
                      ev \o nxt.ev \o <<ReduceEvent(nxt.r)>>)

\* forward.h ToVector::apply / enumerable_to_vector:
\* for (e = get_enumerator(); e.has_value(); e.forward()) push_back(e.get_value())
RECURSIVE ToVectorApply(_, _, _, _)
ToVectorApply(enumerator, result, ev, ok) ==
    LET x == get_value(enumerator)
        fw == forward(enumerator)
    IN  IF ~has_value(enumerator)
        THEN [vec |-> result, ev |-> ev, ok |-> ok]
        ELSE ToVectorApply(fw.e, Append(result, x.val),
                           ev \o x.ev
                              \o <<ReduceEvent(<<has_value(enumerator), x.val>>)>>
                              \o fw.ev,
                           ok /\ fw.ok)

\* ---------------------------------------------------------------- client
Init ==
    /\ header \in {BasicsH, ForwardH}
    /\ v \in Containers
    /\ rng \in Number \X Number
    \* a program has one input: a container, or the bounds of a range
    /\ v = <<>> \/ rng = <<0, 0>>
    /\ header = ForwardH => rng = <<0, 0>>
    /\ objs = <<>>
    /\ top = 0
    /\ temps = {}
    /\ cur = [s \in Slots |-> NoCursor]
    /\ cur0 = [s \in Slots |-> NoCursor]
    /\ snap = [s \in Slots |-> <<>>]
    /\ hist = [s \in Slots |-> <<>>]
    /\ trace = [s \in Slots |-> <<>>]
    /\ drained = <<>>
    /\ calls = 0
    /\ overwritten = FALSE
    /\ crashed = FALSE

Untouched == \A s \in Slots : cur[s] = NoCursor

Live == ~crashed /\ top # 0 /\ objs[top].alive

\* the source of the pipeline: a new temporary of the full-expression
NewSource(ob) ==
    /\ ~crashed /\ top = 0
    /\ objs' = <<ob>>
    /\ top' = 1
    /\ temps' = {1}
    /\ UNCHANGED <<header, v, rng, cur, cur0, snap, hist, trace, drained, calls, overwritten, crashed>>

\* from(v)
From == NewSource(EnumerableFromIteratableRef)

\* from_moved(v): the sequence owns its copy of the container
FromMoved == header = BasicsH /\ NewSource(EnumerableFromIteratableMoved(v))

\* range(start, endExclusive)
Range == header = BasicsH /\ v = <<>> /\ NewSource(RangeEnumerable(rng[1], rng[2]))

\* mutant: the stage is evaluated on the spot, while the pipeline is built
ChainEager(ob) ==
    /\ Live /\ Untouched /\ drained = <<>>
    /\ Stages(top) < MaxStages
    /\ temps = {} \/ temps = DOMAIN objs
    /\ objs' = Append(objs, ob)
    /\ top' = Len(objs) + 1
    /\ temps' = temps \cup {Len(objs) + 1}
    /\ calls' = calls + 1
    /\ UNCHANGED <<header, v, rng, cur, cur0, snap, hist, trace, drained, overwritten, crashed>>

\* seq >> where(f), seq >> select(f): a new temporary that refers to seq
Chain(ob) ==
    /\ Live /\ Untouched /\ drained = <<>>
    /\ Stages(top) < MaxStages
    \* either one full-expression builds the whole pipeline, or every
    \* intermediate sequence is a named variable
    /\ temps = {} \/ temps = DOMAIN objs
    /\ objs' = Append(objs, ob)
    /\ top' = Len(objs) + 1
    /\ temps' = temps \cup {Len(objs) + 1}
    /\ UNCHANGED <<header, v, rng, cur, cur0, snap, hist, trace, drained, calls, overwritten, crashed>>

ChainWhere == \E f \in Filters : Chain(WhereEnumerable(top, f))

ChainSelect == \E f \in Transforms : Chain(SelectEnumerable(top, f))

\* seq >> select([](T& s) { ... std::move(s) ... }).  forward.h hands the
\* transform a const T& (get_value): there such a lambda does not compile.
ChainSelectMoving ==
    /\ header = BasicsH
    /\ \E f \in MovingTransforms : Chain(SelectEnumerable(top, f))

\* the objects after the temporaries in T were destroyed
Destroy(T) == [i \in DOMAIN objs |-> IF i \in T THEN [objs[i] EXCEPT !.alive = FALSE]
                                               ELSE objs[i]]

\* "auto s = <expression>;" : the value of the expression becomes the named
\* sequence s, every other temporary of the full-expression is destroyed
Semicolon ==
    /\ Live /\ temps # {}
    /\ objs' = Destroy(temps \ {top})
    /\ temps' = {}
    /\ UNCHANGED <<header, v, rng, top, cur, cur0, snap, hist, trace, drained, calls, overwritten, crashed>>

\* the memory the destroyed temporaries lay in is reused by the program
Overwrite ==
    /\ Live /\ Dangling(top) /\ ~overwritten
    /\ overwritten' = TRUE
    /\ UNCHANGED <<header, v, rng, objs, top, temps, cur, cur0, snap, hist, trace,
                   drained, calls, crashed>>

\* the container as the caller last knew it: what from_moved took, or what
\* the first cursor of from(v) was created on
Known == IF objs[1].kind = "moved" THEN objs[1].data ELSE snap[1]

\* the caller changes its container once, after from_moved(v) took it or
\* while cursors of from(v) exist
CallerMay ==
    /\ ~crashed /\ top # 0
    /\ objs[1].kind \in {"from", "moved"}
    /\ objs[1].kind = "from" => cur[1] # NoCursor
    /\ v = Known

\* v[i] = x; : assigning an element invalidates no iterator
MutateInPlace ==
    /\ CallerMay
    /\ \E i \in 1..Len(v) : \E x \in ElemValues \ {v[i]} : v' = [v EXCEPT ![i] = x]
    /\ UNCHANGED <<header, rng, objs, top, temps, cur, cur0, snap, hist, trace,
                   drained, calls, overwritten, crashed>>

\* the caller's container goes out of scope, or was handed over with
\* from_moved(std::move(v)), once the sequence owns the elements
DestroyContainer ==
    /\ CallerMay /\ objs[1].kind = "moved"
    /\ v # <<>>
    /\ v' = <<>>
    /\ UNCHANGED <<header, rng, objs, top, temps, cur, cur0, snap, hist, trace,
                   drained, calls, overwritten, crashed>>

\* s.get_enumerator() on the named sequence
GetEnumerator(s) ==
    /\ Live /\ temps = {}
    /\ cur[s] = NoCursor
    /\ \A t \in Slots : t < s => cur[t] # NoCursor
    \* the client pulls cursors by hand or drains with to_vector, not both
    /\ drained = <<>>
    /\ \E out \in Enumerators(top) :
          /\ crashed' = out.crash
          /\ cur' = [cur EXCEPT ![s] = out.e]
          /\ cur0' = [cur0 EXCEPT ![s] = out.e]
          /\ snap' = [snap EXCEPT ![s] = v]
          /\ trace' = [trace EXCEPT ![s] = out.ev]
          /\ calls' = calls + Len(out.ev)
    /\ UNCHANGED <<header, v, rng, objs, top, temps, hist, drained, overwritten>>

Absents(h) == Len(SelectSeq(h, LAMBDA r : ~has_more(r)))

Drained(h) == \E i \in 1..Len(h) : ~has_more(h[i])

CanPull(s) ==
    /\ Live /\ cur[s] # NoCursor
    /\ Absents(hist[s]) < MaxAbsentPulls

\* mutant: the cursors of one sequence share their position
PullShared(s) ==
    /\ header = BasicsH /\ CanPull(s)
    /\ LET nxt == next(cur[s])
       IN  /\ cur' = [t \in Slots |-> IF cur[t] = NoCursor THEN cur[t] ELSE nxt.e]
           /\ hist' = [hist EXCEPT ![s] = Append(@, nxt.r)]
           /\ trace' = [trace EXCEPT ![s] = @ \o nxt.ev]
           /\ calls' = calls + Len(nxt.ev)
    /\ UNCHANGED <<header, v, rng, objs, top, temps, cur0, snap, drained, overwritten,
                   crashed>>

\* forward-basics.h: one call of next() on the cursor in slot s
Pull(s) ==
    /\ header = BasicsH /\ CanPull(s)
    /\ LET nxt == next(cur[s])
       IN  /\ cur' = [cur EXCEPT ![s] = nxt.e]
           /\ hist' = [hist EXCEPT ![s] = Append(@, nxt.r)]
           /\ trace' = [trace EXCEPT ![s] = @ \o nxt.ev]
           /\ calls' = calls + Len(nxt.ev)
    /\ UNCHANGED <<header, v, rng, objs, top, temps, cur0, snap, drained, overwritten,
                   crashed>>

\* forward.h: one round of "for (; e.has_value(); e.forward()) use(e.get_value())"
Step(s) ==
    /\ header = ForwardH /\ CanPull(s)
    /\ IF has_value(cur[s])
       THEN LET x == get_value(cur[s])
                fw == forward(cur[s])
            IN  /\ cur' = [cur EXCEPT ![s] = fw.e]
                /\ hist' = [hist EXCEPT ![s] = Append(@, yield_return(x.val))]
                /\ trace' = [trace EXCEPT ![s] = @ \o x.ev \o fw.ev]
                /\ calls' = calls + Len(x.ev) + Len(fw.ev)
       ELSE /\ hist' = [hist EXCEPT ![s] = Append(@, yield_break)]
            /\ UNCHANGED <<cur, trace, calls>>
    /\ UNCHANGED <<header, v, rng, objs, top, temps, cur0, snap, drained, overwritten,
                   crashed>>

\* to_vector(seq), or "... >> to_vector<T>();" ending the full-expression that
\* built the pipeline: then every temporary of the expression is destroyed
ToVector ==
    /\ Live /\ Len(drained) < MaxDrains
    /\ \A s \in Slots : cur[s] = NoCursor
    /\ \E out \in Enumerators(top) :
          /\ crashed' = out.crash
          /\ LET run == IF header = BasicsH
                        THEN to_vector(out.e, <<>>, out.ev)
                        ELSE ToVectorApply(out.e, <<>>, out.ev, TRUE)
             IN  IF out.crash THEN UNCHANGED <<drained, calls>>
                 ELSE /\ drained' = Append(drained,
                            [vec |-> run.vec, ev |-> run.ev, ok |-> run.ok,
                             inexpr |-> temps # {}, ub |-> Dangling(top),
                             e0 |-> out.e, reducer |-> "to_vector",
                             zero |-> 0, sum |-> 0, key |-> ""])
                      /\ calls' = calls + Calls(run.ev)
          /\ v' = IF out.crash \/ header # BasicsH \/ objs[1].kind # "from"
                  THEN v
                  ELSE AfterMoves(v, to_vector(out.e, <<>>, out.ev).ev)
    /\ objs' = Destroy(temps)
    /\ temps' = {}
    /\ UNCHANGED <<header, rng, top, cur, cur0, snap, hist, trace, overwritten>>

\* sum_from(seq, zero), or "... >> sum_from(zero);" ending the full-expression
SumFrom ==
    /\ header = BasicsH
    \* the program sums its pipeline once
    /\ Live /\ drained = <<>>
    /\ \A s \in Slots : cur[s] = NoCursor
    /\ \E zero \in Zeros, out \in Enumerators(top) :
          /\ crashed' = out.crash
          /\ LET run == sum_from(out.e, zero, <<>>, out.ev)
             IN  IF out.crash THEN UNCHANGED <<drained, calls>>
                 ELSE /\ drained' = Append(drained,
                            [vec |-> run.vec, ev |-> run.ev, ok |-> run.ok,
                             inexpr |-> temps # {}, ub |-> Dangling(top),
                             e0 |-> out.e, reducer |-> "sum_from",
                             zero |-> zero, sum |-> run.sum, key |-> ""])
                      /\ calls' = calls + Calls(run.ev)
          /\ v' = IF out.crash \/ objs[1].kind # "from"
                  THEN v
                  ELSE AfterMoves(v, sum_from(out.e, zero, <<>>, out.ev).ev)
    /\ objs' = Destroy(temps)
    /\ temps' = {}
    /\ UNCHANGED <<header, rng, top, cur, cur0, snap, hist, trace, overwritten>>

\* the drain every terminal reducer starts with: repeated pulls of one cursor
Drain(out) ==
    IF header = BasicsH THEN to_vector(out.e, <<>>, out.ev)
    ELSE ToVectorApply(out.e, <<>>, out.ev, TRUE)

\* to_set: the same drain, inserting into a set: duplicates collapse
RECURSIVE to_set(_)
to_set(vec) == IF vec = <<>> THEN {} ELSE to_set(Tail(vec)) \cup {Head(vec)}

\* the orders a hash-based set may be iterated in: any
RECURSIVE Orderings(_)
Orderings(S) ==
    IF S = {} THEN {<<>>}
    ELSE UNION {{<<x>> \o rest : rest \in Orderings(S \ {x})} : x \in S}

ApplyKey(k, x) ==
    CASE k = "value" -> x
      [] k = "parity" -> x % 2
      [] k = "negated" -> 0 - x

\* mutant: an element is inserted before the first key that is not smaller
InsertDescending(x, sorted, k) ==
    {SubSeq(sorted, 1, i) \o <<x>> \o SubSeq(sorted, i + 1, Len(sorted)) :
        i \in {j \in 0..Len(sorted) :
                 /\ \A m \in 1..j : ApplyKey(k, sorted[m]) >= ApplyKey(k, x)
                 /\ \A m \in (j + 1)..Len(sorted) :
                       ApplyKey(k, sorted[m]) <= ApplyKey(k, x)}}

\* one step of a comparison sort: x goes anywhere between the smaller keys
\* and the greater keys; among equal keys the place is not determined
Insert(x, sorted, k) ==
    {SubSeq(sorted, 1, i) \o <<x>> \o SubSeq(sorted, i + 1, Len(sorted)) :
        i \in {j \in 0..Len(sorted) :
                 /\ \A m \in 1..j : ApplyKey(k, sorted[m]) <= ApplyKey(k, x)
                 /\ \A m \in (j + 1)..Len(sorted) :
                       ApplyKey(k, sorted[m]) >= ApplyKey(k, x)}}

\* the results a non-stable comparison sort of vec by key k may give
RECURSIVE Sorts(_, _)
Sorts(vec, k) ==
    IF vec = <<>> THEN {<<>>}
    ELSE UNION {Insert(Head(vec), sorted, k) : sorted \in Sorts(Tail(vec), k)}

\* what a terminal reducer may return for the drained vector vec
Results(reducer, key, vec) ==
    IF reducer = "distinct" THEN Orderings(to_set(vec)) ELSE Sorts(vec, key)

\* a terminal reducer that drains the pipeline and returns one of its results
Terminal(reducer, key) ==
    /\ Live /\ drained = <<>>
    /\ \A s \in Slots : cur[s] = NoCursor
    /\ \E out \in Enumerators(top) :
          /\ crashed' = out.crash
          /\ IF out.crash THEN UNCHANGED <<drained, calls>>
             ELSE /\ \E res \in Results(reducer, key, Drain(out).vec) :
                        drained' = Append(drained,
                            [vec |-> res, ev |-> Drain(out).ev,
                             ok |-> Drain(out).ok,
                             inexpr |-> temps # {}, ub |-> Dangling(top),
                             e0 |-> out.e, reducer |-> reducer,
                             zero |-> 0, sum |-> 0, key |-> key])
                  /\ calls' = calls + Calls(Drain(out).ev)
          /\ v' = IF out.crash \/ header # BasicsH \/ objs[1].kind # "from"
                  THEN v
                  ELSE AfterMoves(v, Drain(out).ev)
    /\ objs' = Destroy(temps)
    /\ temps' = {}
    /\ UNCHANGED <<header, rng, top, cur, cur0, snap, hist, trace, overwritten>>

\* distinct(seq): to_set, then the set's contents as a new sequence
Distinct == Terminal("distinct", "")

\* order_by(seq, key_fn): drains to a vector, then sorts it by key_fn
OrderBy == \E k \in Keys : Terminal("order_by", k)

\* what every client does: build the pipeline, end the expression
Build ==
    \/ From
    \/ FromMoved
    \/ Range
    \/ ChainWhere
    \/ ChainSelect
    \/ Semicolon
    \/ Overwrite

\* a client that holds one cursor and pulls it, or drains the pipeline
Next ==
    \/ Build
    \/ GetEnumerator(1)
    \/ Pull(1)
    \/ Step(1)
    \/ ToVector

Spec == Init /\ [][Next]_vars

\* a client that keeps every sequence it refers to alive, holds several
\* cursors and pulls them in any order, each until it returns Absent
NextInterleaved ==
    \/ Build
    \/ \E s \in Slots : top # 0 /\ ~Dangling(top) /\ GetEnumerator(s)
    \/ \E s \in Slots : ~Drained(hist[s]) /\ Pull(s)
    \/ \E s \in Slots : ~Drained(hist[s]) /\ Step(s)

SpecInterleaved == Init /\ [][NextInterleaved]_vars

\* a client that pulls one cursor by hand, or reduces its pipeline once, with
\* either reducer
NextReduce ==
    \/ Build
    \/ GetEnumerator(1)
    \/ Pull(1)
    \/ Step(1)
    \/ drained = <<>> /\ ToVector
    \/ SumFrom

SpecReduce == Init /\ [][NextReduce]_vars

\* a client that drains the pipeline with sum_from
NextSum ==
    \/ Build
    \/ SumFrom

SpecSum == Init /\ [][NextSum]_vars

\* a client that builds a pipeline on its container, with transforms that
\* move from their argument among the stages, and reduces it once
NextFrame ==
    \/ From
    \/ FromMoved
    \/ ChainWhere
    \/ ChainSelect
    \/ ChainSelectMoving
    \/ Semicolon
    \/ drained = <<>> /\ ToVector
    \/ SumFrom

SpecFrame == Init /\ [][NextFrame]_vars

\* a client that keeps a source sequence, from(v) or from_moved(v), changes its
\* container, and creates and pulls cursors before and after
NextMutate ==
    \/ From
    \/ FromMoved
    \/ Semicolon
    \/ MutateInPlace
    \/ DestroyContainer
    \/ \E s \in Slots : GetEnumerator(s)
    \/ \E s \in Slots : ~Drained(hist[s]) /\ Pull(s)
    \/ \E s \in Slots : ~Drained(hist[s]) /\ Step(s)

SpecMutate == Init /\ [][NextMutate]_vars

\* a client that drains its pipeline with to_vector, up to MaxDrains times
NextDrain ==
    \/ Build
    \/ ToVector

SpecDrain == Init /\ [][NextDrain]_vars

\* a client that ends its pipeline with distinct or order_by
NextTerminal ==
    \/ Build
    \/ Distinct
    \/ OrderBy

SpecTerminal == Init /\ [][NextTerminal]_vars

\* ================================================================ claims
\* the values a client got out of the results h, in pull order
Present(h) == [i \in 1..Len(SelectSeq(h, has_more)) |-> SelectSeq(h, has_more)[i][2]]

\* the ascending run a, a+1, ..., b-1
Ascending(a, b) == [i \in 1..(b - a) |-> a + i - 1]

IsPrefix(p, q) == Len(p) <= Len(q) /\ \A i \in 1..Len(p) : p[i] = q[i]

Map(f, S) == [i \in 1..Len(S) |-> ApplyTransform(f, S[i])]

Keep(f, S) == SelectSeq(S, LAMBDA x : ApplyFilter(f, x))

\* what enumerator c yields when it alone is pulled to its end
DrainOf(c) ==
    IF c.kind \in {"fiter", "fselect", "fwhere"}
    THEN ToVectorApply(c, <<>>, <<>>, TRUE).vec
    ELSE to_vector(c, <<>>, <<>>).vec

\* the pipeline is built and no reference in it dangles
Sound == top # 0 /\ ~crashed /\ ~Dangling(top)

\* C1: for a <= b, pulling a cursor of range(a, b) gives a, a+1, ..., b-1 in
\* ascending order, b - a values in all, and Absent from then on; to_vector of
\* the range is that run; range(a, a) gives nothing.
C1_RangeAscending ==
    /\ \A s \in Slots :
          (cur0[s].kind = "range" /\ rng[1] <= rng[2]) =>
             \A i \in 1..Len(hist[s]) :
                hist[s][i] = IF i <= rng[2] - rng[1]
                             THEN yield_return(rng[1] + i - 1) ELSE yield_break
    /\ \A i \in 1..Len(drained) :
          (drained[i].e0.kind = "range" /\ rng[1] <= rng[2]) =>
             drained[i].vec = Ascending(rng[1], rng[2])

C1_Witness ==
    /\ rng[2] - rng[1] = NumMax
    /\ cur0[1].kind = "range" /\ Len(hist[1]) = NumMax + 1
    /\ ~has_more(hist[1][NumMax + 1])

\* C2 (as claimed): for start > end the first next() on a cursor of
\* range(start, end) returns Absent.
C2_DescendingRangeEmpty ==
    \A s \in Slots :
       (cur0[s].kind = "range" /\ rng[1] > rng[2] /\ hist[s] # <<>>) =>
          ~has_more(hist[s][1])

\* C3: once a pull on a cursor returned Absent, every later pull on that
\* cursor returns Absent, whatever the cursor is nested from.
C3_IdempotentExhaustion ==
    \A s \in Slots : \A i, j \in 1..Len(hist[s]) :
       (i < j /\ ~has_more(hist[s][i])) => ~has_more(hist[s][j])

C3_Witness ==
    /\ header = BasicsH /\ Sound
    /\ cur0[1].kind = "where" /\ cur0[1].enumerator.kind = "select"
    /\ Len(hist[1]) = 3
    /\ has_more(hist[1][1]) /\ ~has_more(hist[1][2]) /\ ~has_more(hist[1][3])

\* C4 (as claimed): every get_enumerator() on the same sequence starts at the
\* first element of the same underlying data, so all to_vector drains of a
\* pipeline give equal vectors (the assertion of test LambdaReuse1).
C4_Reiterable ==
    \A i, j \in 1..Len(drained) : drained[i].vec = drained[j].vec

\* (with every reference of the pipeline still valid the drains do agree)
ReiterableWhileValid ==
    \A i, j \in 1..Len(drained) :
       (~drained[i].ub /\ ~drained[j].ub) => drained[i].vec = drained[j].vec

\* C5: building a sequence with from / from_moved / range and chaining where
\* and select stages invokes no predicate, no transform and reads no source
\* element: until a cursor exists, nothing has been evaluated.
C5_LazyConstruction == (Untouched /\ drained = <<>>) => calls = 0

C5_Witness ==
    /\ Untouched /\ drained = <<>> /\ ~crashed
    /\ top # 0 /\ Stages(top) = 2 /\ temps = {}
    /\ objs[top].kind = "select" /\ objs[objs[top].up].kind = "where"
    /\ objs[1].kind = "moved" /\ Len(v) = MaxLen

\* the innermost (source) enumerator of c
RECURSIVE Source(_)
Source(c) == IF Height(c) = 0 THEN c ELSE Source(c.enumerator)

\* the source enumerator is where its sequence's get_enumerator() puts it
AtBegin(c) ==
    IF Source(c).kind = "range" THEN Source(c).current \in {rng[1], 0}
    ELSE Source(c).current = 1

\* the events of trace t made by the stage at height h
StageCalls(t, h) == SelectSeq(t, LAMBDA e : e.at = h /\ e.op # "read")

Fresh(s) == cur0[s] # NoCursor /\ hist[s] = <<>>

Min(a, b) == IF a < b THEN a ELSE b

\* C7: draining where(S, P) yields exactly the elements of S that satisfy P,
\* in the order S yields them: what a where cursor has yielded is a prefix of
\* the P-filtered upstream, all of it once the cursor returned Absent, and
\* to_vector of the where sequence is the P-filtered upstream.
C7_WhereFilters ==
    /\ \A s \in Slots :
          cur0[s].kind = "where" =>
             LET want == Keep(cur0[s].filter, DrainOf(cur0[s].enumerator))
             IN  /\ IsPrefix(Present(hist[s]), want)
                 /\ Drained(hist[s]) => Present(hist[s]) = want
    /\ \A i \in 1..Len(drained) :
          drained[i].e0.kind = "where" =>
             drained[i].vec =
                Keep(drained[i].e0.filter, DrainOf(drained[i].e0.enumerator))

C7_Witness ==
    /\ Sound /\ cur0[1].kind = "where" /\ cur0[1].filter = "lt20"
    /\ v = <<21, 15>> /\ Drained(hist[1]) /\ Present(hist[1]) = <<15>>

\* C8: draining select(S, F) yields F(s1), ..., F(sn) for the upstream
\* S = s1..sn, one output per input in the same order, and the select cursor
\* returns Absent exactly when its upstream does.
C8_SelectMaps ==
    /\ \A s \in Slots :
          cur0[s].kind = "select" =>
             LET want == Map(cur0[s].transform, DrainOf(cur0[s].enumerator))
             IN  \A i \in 1..Len(hist[s]) :
                    hist[s][i] = IF i <= Len(want) THEN yield_return(want[i])
                                 ELSE yield_break
    /\ \A i \in 1..Len(drained) :
          drained[i].e0.kind = "select" =>
             drained[i].vec =
                Map(drained[i].e0.transform, DrainOf(drained[i].e0.enumerator))

C8_Witness ==
    /\ Sound /\ cur0[1].kind = "select" /\ cur0[1].enumerator.kind = "where"
    /\ Drained(hist[1]) /\ Present(hist[1]) = <<115, 115>>

\* the calls of its own transform a select cursor made, and the length of
\* the upstream it was created over
OwnCalls(s) == Len(StageCalls(trace[s], Height(cur0[s])))
UpstreamLen(s) == Len(DrainOf(cur0[s].enumerator))

\* C9 (as claimed): after k values were requested from a select cursor over
\* an upstream of n elements its transform has run min(k, n) times, 0 times
\* when nothing was requested yet.
C9_TransformOncePerPull ==
    \A s \in Slots :
       (Sound /\ cur0[s].kind \in {"select", "fselect"}) =>
          OwnCalls(s) = Min(Len(hist[s]), UpstreamLen(s))

\* C9 (amended): the transform runs once per upstream element reached.  With
\* the next() cursor of forward-basics.h that is min(k, n) after k pulls; the
\* select cursor of forward.h holds the next value ready, computed by its
\* constructor and by forward(): min(k + 1, n) after k rounds.
C9_TransformOncePerElement ==
    \A s \in Slots :
       /\ cur0[s].kind = "select" =>
             OwnCalls(s) = Min(Len(hist[s]), UpstreamLen(s))
       /\ cur0[s].kind = "fselect" =>
             OwnCalls(s) = Min(Len(hist[s]) + 1, UpstreamLen(s))

C9_Witness ==
    /\ Sound /\ header = ForwardH
    /\ cur0[1].kind = "fselect" /\ cur0[1].enumerator.kind = "fwhere"
    /\ UpstreamLen(1) = 2 /\ Len(hist[1]) = 1 /\ OwnCalls(1) = 2

\* the pipeline is from(v) >> where(P) >> select(F)
FromWhereSelect ==
    /\ top = 3 /\ objs[1].kind = "from"
    /\ objs[2].kind = "where" /\ objs[2].up = 1
    /\ objs[3].kind = "select" /\ objs[3].up = 2

\* C10: from(v) >> where(P) >> select(F) >> to_vector() returns F(x) for each
\* x of v, in container order, such that P(x).
C10_WhereSelectToVector ==
    \A i \in 1..Len(drained) :
       (FromWhereSelect /\ ~drained[i].ub) =>
          drained[i].vec = Map(objs[3].fn, Keep(objs[2].fn, v))

C10_Witness ==
    /\ FromWhereSelect /\ v = <<15, 21>>
    /\ objs[2].fn = "lt20" /\ objs[3].fn = "plus100"
    /\ Len(drained) = 1 /\ drained[1].inexpr /\ drained[1].vec = <<115>>
    /\ header = BasicsH

\* the enumerator c after k calls of next() / k rounds of forward()
RECURSIVE After(_, _)
After(c, k) == IF k = 0 THEN c ELSE After(next(c).e, k - 1)

RECURSIVE FwdAfter(_, _)
FwdAfter(c, k) == IF k = 0 THEN c ELSE FwdAfter(forward(c).e, k - 1)

\* the result of the k-th pull of a cursor that starts as c
NthPull(c, k) == next(After(c, k - 1)).r

\* C11: to_vector(seq) returns the values one cursor of seq produces, in pull
\* order: its k-th element is the value of the cursor's k-th pull, and the
\* pull after its last element is the first Absent one; for seq = from(c) it
\* is the elements of c in container order, each once.
C11_ToVectorOnePass ==
    \A i \in 1..Len(drained) :
       LET d == drained[i]
           n == Len(d.vec)
       IN  /\ header = BasicsH =>
                 /\ \A k \in 1..n : NthPull(d.e0, k) = yield_return(d.vec[k])
                 /\ ~has_more(NthPull(d.e0, n + 1))
           /\ header = ForwardH =>
                 /\ \A k \in 1..n :
                       /\ has_value(FwdAfter(d.e0, k - 1))
                       /\ get_value(FwdAfter(d.e0, k - 1)).val = d.vec[k]
                 /\ ~has_value(FwdAfter(d.e0, n))
           /\ (d.e0.kind \in {"iter", "fiter"} /\ d.e0.mem = Mem(0)) => d.vec = v

C11_Witness ==
    /\ header = BasicsH /\ v = <<21, 15>>
    /\ Len(drained) = 1 /\ drained[1].e0.kind = "iter"
    /\ drained[1].vec = <<21, 15>>

\* ((zero + v1) + v2) + ... + vn
RECURSIVE FoldLeft(_, _)
FoldLeft(zero, vals) ==
    IF vals = <<>> THEN zero
    ELSE Plus(FoldLeft(zero, SubSeq(vals, 1, Len(vals) - 1)), vals[Len(vals)])

\* C12: sum_from(seq, zero) is the left fold of + from zero over the values
\* one cursor of seq yields, in pull order, and is zero itself when the
\* sequence yields nothing.
C12_SumFromLeftFold ==
    \A i \in 1..Len(drained) :
       LET d == drained[i]
           vals == DrainOf(d.e0)
       IN  d.reducer = "sum_from" =>
              /\ d.sum = FoldLeft(d.zero, vals)
              /\ vals = <<>> => d.sum = d.zero

C12_Witness ==
    /\ Len(drained) = 1 /\ ~drained[1].ub
    /\ drained[1].reducer = "sum_from" /\ drained[1].zero = 1
    /\ v = <<15, 21>> /\ drained[1].e0.kind = "where" /\ drained[1].sum = 16
    /\ objs[top].fn = "lt20"

\* a cursor of the sequence the head of the pipeline refers to as its
\* upstream, made while that reference is valid
UpstreamEnumerator ==
    IF header = BasicsH THEN get_enumerator(objs[top].up, FALSE)
    ELSE fwd_get_enumerator(objs[top].up, FALSE).e

HeadIsWhere(f) == top # 0 /\ objs[top].kind = "where" /\ objs[top].fn = f

\* C13: to_vector(where(S, always_true)) equals to_vector(S).
C13_WhereAlwaysTrue ==
    \A i \in 1..Len(drained) :
       (HeadIsWhere("always_true") /\ ~drained[i].ub) =>
          drained[i].vec = DrainOf(UpstreamEnumerator)

C13_Witness ==
    /\ HeadIsWhere("always_true") /\ objs[objs[top].up].kind = "where"
    /\ v = <<21, 15>> /\ Len(drained) = 1 /\ ~drained[1].ub
    /\ drained[1].vec = <<15>>

\* C14: to_vector(where(S, always_false)) is empty, and the first pull of a
\* cursor of where(S, always_false) returns Absent with the upstream consumed
\* to its end, the predicate having been asked once per upstream element.
C14_WhereAlwaysFalse ==
    /\ \A i \in 1..Len(drained) :
          (HeadIsWhere("always_false") /\ ~drained[i].ub) =>
             drained[i].vec = <<>>
    /\ \A s \in Slots :
          (HeadIsWhere("always_false") /\ Sound /\ hist[s] # <<>>) =>
             /\ ~has_more(hist[s][1])
             /\ IF header = BasicsH
                THEN ~has_more(next(cur[s].enumerator).r)
                ELSE ~has_value(cur[s].enumerator)
             /\ Len(StageCalls(trace[s], Height(cur0[s])))
                   = Len(DrainOf(UpstreamEnumerator))

C14_Witness ==
    /\ HeadIsWhere("always_false") /\ Sound /\ header = BasicsH
    /\ Len(v) = 2 /\ objs[objs[top].up].kind = "from"
    /\ Len(hist[1]) = 1 /\ Len(trace[1]) = 4

\* k pulls of enumerator c with nothing else going on: the enumerator
\* afterwards and the results, in order
RECURSIVE PulledAlone(_, _, _)
PulledAlone(c, k, rs) ==
    IF k = 0 THEN [e |-> c, rs |-> rs]
    ELSE IF c.kind \in {"fiter", "fselect", "fwhere"}
    THEN IF has_value(c)
         THEN PulledAlone(forward(c).e, k - 1,
                          Append(rs, yield_return(get_value(c).val)))
         ELSE PulledAlone(c, k - 1, Append(rs, yield_break))
    ELSE LET nxt == next(c)
         IN  PulledAlone(nxt.e, k - 1, Append(rs, nxt.r))

\* C15: cursors of one sequence are independent.  Whatever the interleaving
\* of the pulls, each cursor has given what it gives when pulled alone, and is
\* in the state that many pulls alone leave it in.
C15_CursorIndependence ==
    \A s \in Slots :
       (Sound /\ cur0[s] # NoCursor) =>
          LET alone == PulledAlone(cur0[s], Len(hist[s]), <<>>)
          IN  hist[s] = alone.rs /\ cur[s] = alone.e

C15_Witness ==
    /\ Sound /\ header = BasicsH /\ v = <<15, 21>>
    /\ cur0[1].kind = "select" /\ cur0[2] = cur0[1]
    /\ Present(hist[1]) = <<115>> /\ Present(hist[2]) = <<115, 121>>
    /\ Len(hist[2]) = 3

\* One pull of a where cursor: the predicate is asked about upstream values
\* one after the other, every one but the last is rejected, the last one is
\* accepted exactly when the pull gives a value; no more calls are made than
\* the upstream had values left, and the upstream is left right behind the
\* last value looked at (behind its end when it ran out).
WherePullBounded ==
    \A s \in Slots :
       (cur0[s].kind \in {"where", "fwhere"} /\ hist'[s] # hist[s]) =>
          LET new == SubSeq(trace'[s], Len(trace[s]) + 1, Len(trace'[s]))
              mine == StageCalls(new, Height(cur0[s]))
              left == DrainOf(cur[s].enumerator)
              got == IF header = BasicsH THEN has_more(hist'[s][Len(hist'[s])])
                     ELSE has_value(cur'[s])
              bounded ==
                 /\ \A i \in 1..Len(mine) :
                       ApplyFilter(mine[i].fn, mine[i].arg) <=>
                          (i = Len(mine) /\ got)
                 /\ got => mine # <<>>
          IN  IF header = BasicsH
              THEN /\ bounded
                   /\ Len(mine) <= Len(left)
                   /\ cur'[s].enumerator =
                         After(cur[s].enumerator,
                               Len(mine) + IF got THEN 0 ELSE 1)
              ELSE has_value(cur[s]) =>
                      /\ bounded
                      /\ Len(mine) < Len(left)
                      /\ cur'[s].enumerator =
                            FwdAfter(cur[s].enumerator,
                                     1 + Len(mine) - IF got THEN 1 ELSE 0)

\* the number of elements the source of enumerator c has left
SourceSize(c) ==
    IF Source(c).kind = "range"
    THEN (Source(c).lastExcluded - Source(c).current) % (NumMax + 1)
    ELSE Source(c).end - Source(c).current

\* A cursor gives at most as many values as its source has elements and
\* returns Absent at the pull after them at the latest; to_vector and
\* sum_from, which pull until Absent, end after at most that many pulls.
DrainsBounded ==
    /\ \A s \in Slots :
          cur0[s] # NoCursor =>
             /\ Len(Present(hist[s])) <= SourceSize(cur0[s])
             /\ Len(hist[s]) > SourceSize(cur0[s]) => Drained(hist[s])
    /\ \A i \in 1..Len(drained) :
          Len(drained[i].vec) <= SourceSize(drained[i].e0)

\* C16: every pull of a where cursor over a finite upstream terminates, having
\* consumed the upstream up to and including the first accepted value or up
\* to its end; consequently a cursor that is pulled on and on returns Absent
\* after finitely many pulls, and to_vector and sum_from terminate.
C16_WherePullTerminates ==
    /\ [][WherePullBounded]_vars
    /\ []DrainsBounded

C16_Witness ==
    /\ Sound /\ header = BasicsH /\ v = <<21, 15>>
    /\ cur0[1].kind = "where" /\ cur0[1].filter = "lt20"
    /\ cur0[1].enumerator.kind = "iter"
    /\ hist[1] = <<yield_return(15)>> /\ Len(trace[1]) = 4

\* the pipeline is source >> where(P) >> select(F)
WhereSelect ==
    /\ top = 3
    /\ objs[2].kind = "where" /\ objs[2].up = 1
    /\ objs[3].kind = "select" /\ objs[3].up = 2

\* the values of the source of the pipeline, in order
SourceValues ==
    IF header = BasicsH THEN DrainOf(get_enumerator(1, FALSE)) ELSE v

\* What happens for source element i while source >> where(P) >> select(F)
\* is drained: it is read (a range computes its values), P is asked, and if P
\* accepts F is applied and the output handed to the reducer.  forward.h
\* dereferences the source iterator again for the transform.
FusedStep(i) ==
    LET x == SourceValues[i]
        read == IF objs[1].kind = "range" THEN <<>> ELSE <<ReadEvent(i)>>
        again == IF header = ForwardH THEN read ELSE <<>>
    IN  read \o <<FilterEvent(objs[2].fn, <<TRUE, x>>, 1)>>
          \o IF ApplyFilter(objs[2].fn, x)
             THEN again \o <<TransformEvent(objs[3].fn, <<TRUE, x>>, 2),
                             ReduceEvent(<<TRUE, ApplyTransform(objs[3].fn, x)>>)>>
             ELSE <<>>

RECURSIVE Fused(_)
Fused(n) == IF n = 0 THEN <<>> ELSE Fused(n - 1) \o FusedStep(n)

\* the reads of source elements among the events ev
Reads(ev) == SelectSeq(ev, LAMBDA e : e.op = "read")

\* C17: draining source >> where(P) >> select(F) is one fused pass: the
\* events are, element by element in source order, the read of the element,
\* the call of P and, when P accepts, the call of F and the delivery of the
\* output, all before the next element is read; with forward-basics.h each
\* source element is read exactly once.
C17_FusedSinglePass ==
    \A i \in 1..Len(drained) :
       (WhereSelect /\ ~drained[i].ub) =>
          /\ drained[i].ev = Fused(Len(SourceValues))
          /\ (header = BasicsH /\ objs[1].kind # "range") =>
                Reads(drained[i].ev) =
                   [k \in 1..Len(SourceValues) |-> ReadEvent(k)]

C17_Witness ==
    /\ WhereSelect /\ header = BasicsH /\ objs[1].kind = "from"
    /\ v = <<21, 15>> /\ objs[2].fn = "lt20"
    /\ Len(drained) = 1 /\ ~drained[1].ub /\ Len(drained[1].ev) = 6

\* C18: no component reads the value of an Absent result: every value a
\* predicate or a transform was called on, and every value to_vector appended
\* or sum_from added, came out of a result whose presence flag was true.
C18_NoAbsentValueRead ==
    /\ \A s \in Slots : \A k \in 1..Len(trace[s]) : trace[s][k].present
    /\ \A i \in 1..Len(drained) :
          \A k \in 1..Len(drained[i].ev) : drained[i].ev[k].present

C18_Witness ==
    /\ Len(drained) = 1 /\ ~drained[1].ub /\ drained[1].reducer = "sum_from"
    /\ drained[1].e0.kind = "select" /\ drained[1].e0.enumerator.kind = "where"
    /\ v = <<15, 21>> /\ drained[1].vec = <<115>>
    /\ Len(drained[1].ev) = 6

\* a reducer returns
Reduces == drained' # drained

\* C19: draining a pipeline built on from(v) leaves the borrowed container as
\* it was: across every to_vector and sum_from call whose references are all
\* valid, v is unchanged, whatever the predicates and transforms, a transform
\* that moves from its argument included.
C19_DrainLeavesContainer ==
    [][(Reduces /\ objs[1].kind = "from" /\ ~Dangling(top)) => v' = v]_vars

C19_Witness ==
    /\ Len(drained) = 1 /\ ~drained[1].ub /\ objs[1].kind = "from"
    /\ drained[1].e0.kind = "select" /\ drained[1].e0.transform = "take"
    /\ drained[1].e0.enumerator.kind = "where"
    /\ v = <<15, 21>> /\ drained[1].vec = <<15>>

\* the cursor in slot s was created on a source sequence of the given kind
CursorOf(s, kind) == top = 1 /\ objs[1].kind = kind /\ cur0[s] # NoCursor

\* every cursor of a from_moved sequence yields the elements the sequence took
OwnedFixed ==
    \A s \in Slots : CursorOf(s, "moved") =>
        /\ IsPrefix(Present(hist[s]), objs[1].data)
        /\ Drained(hist[s]) => Present(hist[s]) = objs[1].data

BorrowedLive ==
    \A s \in Slots :
        (hist[s]' # hist[s] /\ CursorOf(s, "from")
            /\ has_more(hist[s]'[Len(hist[s]')])) =>
        hist[s]'[Len(hist[s]')][2] = v[Len(Present(hist[s]'))]

RECURSIVE Yielded(_)
Yielded(c) ==
    IF c.kind \in {"fiter", "fselect", "fwhere"}
    THEN IF ~has_value(c) THEN <<>>
         ELSE <<get_value(c).val>> \o Yielded(forward(c).e)
    ELSE IF ~has_more(next(c).r) THEN <<>>
         ELSE <<next(c).r[2]>> \o Yielded(next(c).e)

Range_(vec) == {vec[i] : i \in 1..Len(vec)}

Count(x, vec) == Len(SelectSeq(vec, LAMBDA y : y = x))

C22_OrderBySorted ==
    \A i \in 1..Len(drained) :
        (drained[i].reducer = "order_by" /\ ~drained[i].ub) =>
            LET out == drained[i].vec
                inp == Yielded(drained[i].e0)
            IN  /\ Len(out) = Len(inp)
                /\ \A x \in Range_(out) \cup Range_(inp) : Count(x, out) = Count(x, inp)
                /\ \A j \in 1..(Len(out) - 1) :
                      ApplyKey(drained[i].key, out[j]) <= ApplyKey(drained[i].key, out[j + 1])

C22_Witness ==
    /\ Len(drained) = 1 /\ drained[1].reducer = "order_by" /\ ~drained[1].ub
    /\ drained[1].key = "negated" /\ v = <<15, 21>> /\ objs[1].kind = "from"
    /\ Yielded(drained[1].e0) = <<15, 21>> /\ drained[1].vec = <<21, 15>>

\* the forward.h WhereEnumerators among enumerator c and those nested in it
RECURSIVE Wheres(_)
Wheres(c) ==
    IF c.kind \in {"fselect", "fwhere"}
    THEN (IF c.kind = "fwhere" THEN {c} ELSE {}) \cup Wheres(c.enumerator)
    ELSE {}

\* C23: in forward.h, after its construction and after every forward(), a
\* WhereEnumerator either has no value or stands on an element its filter
\* accepts: get_value() never exposes a rejected element.
C23_WhereStandsOnAccepted ==
    \A s \in Slots :
        (header = ForwardH /\ cur[s] # NoCursor /\ ~Dangling(top)) =>
            \A w \in Wheres(cur[s]) :
                has_value(w) => ApplyFilter(w.filter, get_value(w).val)

C23_Witness ==
    /\ header = ForwardH /\ v = <<21, 15>>
    /\ cur[1] # NoCursor /\ cur[1].kind = "fwhere" /\ cur[1].filter = "lt20"
    /\ ~Dangling(top)
    /\ hist[1] = <<>> /\ has_value(cur[1]) /\ get_value(cur[1]).val = 15

\* C24: in forward.h no assert(has_value()) fails while ToVector::apply /
\* enumerable_to_vector drains a pipeline of where and select stages whose
\* references are valid: not in the forward() calls of the loop, not in the
\* nested ones, not in those seek() makes in the constructors and afterwards;
\* and the source iterator is never moved past end.
C24_ForwardAssertsHold ==
    \A i \in 1..Len(drained) :
        (header = ForwardH /\ ~drained[i].ub) =>
            /\ fwd_get_enumerator(top, FALSE).ok
            /\ drained[i].ok
            /\ \A k \in 0..Len(drained[i].vec) :
                  Source(FwdAfter(drained[i].e0, k)).current
                      <= Source(drained[i].e0).end

C24_Witness ==
    /\ header = ForwardH /\ v = <<15, 21>>
    /\ Len(drained) = 1 /\ ~drained[1].ub /\ drained[1].ok
    /\ drained[1].e0.kind = "fselect" /\ drained[1].e0.enumerator.kind = "fwhere"
    /\ drained[1].e0.enumerator.filter = "lt20"
    /\ drained[1].vec = <<115>>
    /\ Source(FwdAfter(drained[1].e0, 1)).current = 3

\* the vector the other header's cursors and drain loop give for the pipeline
OtherDesign ==
    IF header = ForwardH
    THEN to_vector(get_enumerator(top, FALSE), <<>>, <<>>).vec
    ELSE ToVectorApply(fwd_get_enumerator(top, FALSE).e, <<>>, <<>>, TRUE).vec

\* C25: the two cursor designs give the same drained result.  For every
\* container, every chain of where and select stages on from(v) (select with
\* a type-preserving transform) and valid references, the vector drained with
\* the cursors of one header equals the vector the cursors of the other
\* header give for the same pipeline.
C25_DesignsAgree ==
    \A i \in 1..Len(drained) :
        (objs[1].kind = "from" /\ ~drained[i].ub) =>
            drained[i].vec = OtherDesign

C25_Witness ==
    /\ header = ForwardH /\ v = <<21, 15>>
    /\ Len(drained) = 1 /\ ~drained[1].ub
    /\ drained[1].e0.kind = "fselect" /\ drained[1].e0.enumerator.kind = "fwhere"
    /\ drained[1].e0.enumerator.filter = "always_true"
    /\ drained[1].vec = <<121, 115>> /\ OtherDesign = <<121, 115>>

====
